---- MODULE Spec2Model ----
(***************************************************************************)
(* Model of src/src/orderbook/orders/nftx/index.ts: save(orderInfos) and   *)
(* its inner handleOrder, reconciling NFTX pool events into the orders     *)
(* table.  A step of the model is the code that runs between two awaits    *)
(* (JavaScript runs it without interruption); tasks of one save() call and *)
(* of concurrent save() calls interleave at the awaits.                    *)
(***************************************************************************)
EXTENDS Integers, Sequences, FiniteSets, TLC

(***************************************************************************)
(* Program constants                                                       *)
(***************************************************************************)
\* pLimit(20)
ConcurrencyLimit == 20
\* for (let index = 0; index < 10; index++)
Depth == 10
\* const slippage = 2
slippage == 2
\* const totalBuiltInBps = 0
totalBuiltInBps == 0
\* .div(10000)
BpsDenominator == 10000

\* the only pool handleOrder goes on with
AllowedPool == "0x569a0ff212efe6b2fac806765ef59ce6685f2dd2"
OtherPool == "0x000000000000000000000000000000000000dead"
Pools == {AllowedPool, OtherPool}
AddressZero == "0x0000000000000000000000000000000000000000"

(***************************************************************************)
(* Bounds of the model                                                     *)
(***************************************************************************)
\* token ids the pool can hold: 1..MaxItems
MaxItems == 2
\* events of the large batch beyond the concurrency ceiling
ExtraEvents == 1
\* the token ids and the number of calls getOrderId is tried with on its own
MaxTokenId == 6
MaxIdCalls == 2

\* the save() calls of a run, named in the order they are made
Calls == {1, 2}

(***************************************************************************)
(* getOrderId: keccak256 over the packed encoding of the typed values      *)
(***************************************************************************)
Utf8(s) ==
  CASE s = "nftx" -> <<110, 102, 116, 120>>
    [] s = "buy" -> <<98, 117, 121>>
    [] s = "sell" -> <<115, 101, 108, 108>>

AddressBytes(a) ==
  CASE a = AllowedPool ->
         <<86, 154, 15, 242, 18, 239, 230, 178, 250, 200,
           6, 118, 94, 245, 156, 230, 104, 95, 45, 210>>
    [] a = OtherPool ->
         <<0, 0, 0, 0, 0, 0, 0, 0, 0, 0, 0, 0, 0, 0, 0, 0, 0, 0, 222, 173>>

\* big-endian, 32 bytes; the token ids of the model are below 2^24
Uint256Bytes(n) ==
  [i \in 1..32 |->
     IF i <= 29 THEN 0
     ELSE IF i = 30 THEN (n \div 65536) % 256
     ELSE IF i = 31 THEN (n \div 256) % 256
     ELSE n % 256]

RECURSIVE pack(_, _)
pack(types, values) ==
  IF types = <<>> THEN <<>>
  ELSE LET ty == Head(types)
           v == Head(values)
           enc == CASE ty = "string" -> Utf8(v)
                    [] ty = "address" -> AddressBytes(v)
                    [] ty = "uint256" -> Uint256Bytes(v)
       IN enc \o pack(Tail(types), Tail(values))

\* a 16-bit polynomial digest of the bytes stands for the 256-bit hash:
\* h, then h * 257 + byte modulo 46337 for every byte in turn, computed by
\* halving the byte string
RECURSIVE DigestPower(_)
DigestPower(n) ==
  IF n = 0 THEN 1
  ELSE LET half == DigestPower(n \div 2)
           square == (half * half) % 46337
       IN IF n % 2 = 1 THEN (square * 257) % 46337 ELSE square

RECURSIVE DigestRange(_, _, _)
DigestRange(bytes, lo, hi) ==
  IF lo = hi THEN bytes[lo]
  ELSE LET mid == (lo + hi) \div 2
       IN (DigestRange(bytes, lo, mid) * DigestPower(hi - mid)
             + DigestRange(bytes, mid + 1, hi)) % 46337

Digest(bytes, h) ==
  IF bytes = <<>> THEN h
  ELSE (h * DigestPower(Len(bytes)) + DigestRange(bytes, 1, Len(bytes))) % 46337

keccak256(types, values) == Digest(pack(types, values), 1)

\* variant: the optional token id is left out of the hash
getOrderIdWithoutTokenId(pool, side, tokenId) ==
  keccak256(<<"string", "address", "string">>, <<"nftx", pool, side>>)

getOrderId(pool, side, tokenId) ==
  IF side = "buy"
  THEN keccak256(<<"string", "address", "string">>, <<"nftx", pool, side>>)
  ELSE keccak256(<<"string", "address", "string", "uint256">>,
                 <<"nftx", pool, side, tokenId>>)

(***************************************************************************)
(* The collaborators' answers                                              *)
(***************************************************************************)
\* an optional value: <<>> is undefined, <<v>> is v
None == <<>>
Some(v) == <<v>>

\* nftx.getNftPoolDetails
PoolDetails(p) == [address |-> p, nft |-> "0xnft", vaultId |-> 1]

\* The curves the oracle can answer from: the depths with a raw price per
\* direction, and the price at depth 1.
Curves ==
  { [name |-> "deep", sell |-> {1, 2, 3}, sellBase |-> 1000, buy |-> {1, 2}, buyBase |-> 1105],
    [name |-> "gap",  sell |-> {1, 3},    sellBase |-> 905,  buy |-> {},     buyBase |-> 0],
    [name |-> "bid",  sell |-> {},        sellBase |-> 0,    buy |-> {1, 2}, buyBase |-> 1105],
    [name |-> "dry",  sell |-> {},        sellBase |-> 0,    buy |-> {},     buyBase |-> 0] }

SellFeeBps == 50
BuyFeeBps == 30

\* Sdk.Nftx.Helpers.getPoolPrice(pool, depth, slippage, ...): a direction the
\* pool cannot serve at that depth carries neither a raw nor an adjusted price
getPoolPrice(curve, depth) ==
  LET rawSell == curve.sellBase + 10 * (depth - 1)
      rawBuy == curve.buyBase + 10 * (depth - 1)
  IN [ raw |-> [ sell |-> IF depth \in curve.sell THEN Some(rawSell) ELSE None,
                 buy |-> IF depth \in curve.buy THEN Some(rawBuy) ELSE None ],
       sell |-> IF depth \in curve.sell
                THEN Some(rawSell - (rawSell * slippage) \div 100) ELSE None,
       buy |-> IF depth \in curve.buy
               THEN Some(rawBuy + (rawBuy * slippage) \div 100) ELSE None,
       bps |-> [sell |-> SellFeeBps, buy |-> BuyFeeBps],
       currency |-> "weth" ]

\* royalties.getRoyaltiesByTokenSet(..., "default")
RoyaltySchedules ==
  { <<>>,
    <<[recipient |-> AddressZero, bps |-> 100], [recipient |-> "0xr1", bps |-> 150]>>,
    <<[recipient |-> "0xr1", bps |-> 0], [recipient |-> "0xr2", bps |-> 333]>>,
    <<[recipient |-> AddressZero, bps |-> 500]>> }

\* commonHelpers.getNfts: the token ids the pool holds, in ascending order
Inventories ==
  { ids \in UNION {[1..n -> 1..MaxItems] : n \in 0..MaxItems} :
      \A i \in 1..Len(ids) : \A j \in 1..Len(ids) : i < j => ids[i] < ids[j] }

(***************************************************************************)
(* Pure helpers of handleOrder                                             *)
(***************************************************************************)
\* priceList.forEach((_) => { if (_.raw.sell) prices.push(_.raw.sell) })
Prices(priceList, direction) ==
  LET priced == SelectSeq(priceList, LAMBDA q : q.raw[direction] # None)
  IN [i \in 1..Len(priced) |-> priced[i].raw[direction][1]]

RECURSIVE SumBps(_)
SumBps(schedule) ==
  IF schedule = <<>> THEN 0 ELSE Head(schedule).bps + SumBps(Tail(schedule))

\* defaultRoyalties.filter(({ bps, recipient }) => bps && recipient !== AddressZero)
ValidRecipients(schedule) ==
  SelectSeq(schedule, LAMBDA r : r.bps # 0 /\ r.recipient # AddressZero)

\* variant: neither the test of the totals nor the one of the recipients; with
\* no valid recipient the difference goes to the zero address
MissingRoyaltiesUnguarded(schedule, price) ==
  LET validRecipients == ValidRecipients(schedule)
      bpsDiff == SumBps(schedule) - totalBuiltInBps
  IN << [ bps |-> bpsDiff,
          amount |-> (price * bpsDiff) \div BpsDenominator,
          recipient |-> IF validRecipients # <<>> THEN validRecipients[1].recipient
                        ELSE AddressZero ] >>

\* the royalties on top of a price
MissingRoyalties(schedule, price) ==
  LET totalDefaultBps == SumBps(schedule)
      validRecipients == ValidRecipients(schedule)
      bpsDiff == totalDefaultBps - totalBuiltInBps
  IN IF totalBuiltInBps < totalDefaultBps /\ validRecipients # <<>>
     THEN << [ bps |-> bpsDiff,
               amount |-> (price * bpsDiff) \div BpsDenominator,
               recipient |-> validRecipients[1].recipient ] >>
     ELSE <<>>

\* variant: the royalties are handed back instead of taken
RECURSIVE MissingRoyaltyRebate(_)
MissingRoyaltyRebate(missing) ==
  IF missing = <<>> THEN 0 ELSE MissingRoyaltyRebate(Tail(missing)) - Head(missing).amount

RECURSIVE MissingRoyaltyAmount(_)
MissingRoyaltyAmount(missing) ==
  IF missing = <<>> THEN 0 ELSE Head(missing).amount + MissingRoyaltyAmount(Tail(missing))

(***************************************************************************)
(* State                                                                   *)
(***************************************************************************)
VARIABLES
  orders,             \* the orders table: a sequence of rows
  defaultRoyalties,   \* the royalty registry's default schedule of the collection
  awaited,            \* whether the caller awaits a save() before it makes the next
  orderInfos,         \* per save() call: its argument
  phase,              \* per call: "idle", "fanout", "inserting", "notifying", "returned", "rejected"
  precededBy,         \* per call: the calls that had returned when it was made
  results,            \* per call: const results
  orderValues,        \* per call: const orderValues
  statement,          \* per call: the rows of the bulk insert once issued
  published,          \* per call: the list handed to ordersUpdateById.addToQueue
  pc,                 \* per task: the await it is suspended at
  curve,              \* per task: the curve the oracle answers it from
  priceList,          \* per task: const priceList
  feeBps,             \* per task: let feeBps
  feeBreakdown,       \* per task: const feeBreakdown (one array, shared by both legs)
  missingRoyalties,   \* per task: the running leg's missingRoyalties
  normalizedValue,    \* per task: the running leg's normalizedValue
  poolOwnedTokenIds,  \* per task: const poolOwnedTokenIds
  tokenIndex,         \* per task: position of the for...of loop in poolOwnedTokenIds
  caught,             \* per task: the catch blocks it went through, <<block, token id>>
  idCalls             \* the calls of getOrderId by the module's importers: arguments and answer

storeVars == <<orders, defaultRoyalties>>
envVars == <<awaited, orderInfos, idCalls>>
callVars == <<envVars, phase, precededBy, results, orderValues, statement, published>>
legVars == <<missingRoyalties, normalizedValue, poolOwnedTokenIds, tokenIndex>>
taskVars == <<pc, curve, priceList, feeBps, feeBreakdown, legVars, caught>>
vars == <<storeVars, callVars, taskVars>>

\* a task is one handleOrder call: <<call, index in orderInfos>>
TasksOf(infos) == UNION {{<<c, i>> : i \in 1..Len(infos[c])} : c \in DOMAIN infos}
Tasks == TasksOf(orderInfos)
TasksOfCall(c) == {t \in Tasks : t[1] = c}
orderParams(t) == orderInfos[t[1]][t[2]].orderParams

OrderInfo(p, tx) == [orderParams |-> [pool |-> p, txTimestamp |-> 1000 + tx, txHash |-> tx]]

\* the schedule the runs with overlapping tasks are made under
MixedSchedule ==
  <<[recipient |-> AddressZero, bps |-> 100], [recipient |-> "0xr1", bps |-> 150]>>

\* The runs of the model:
\*  - one call with no event, or with the events of two transactions;
\*  - two calls with one event each, which the caller does not await;
\*  - two calls with the same event of the supported pool (a redelivery), each
\*    awaited before the next is made, under any royalty schedule.
OverlappingRuns ==
  {[c \in {1} |-> <<>>]}
    \cup {[c \in {1} |-> <<OrderInfo(p[1], 1), OrderInfo(p[2], 2)>>] : p \in Pools \X Pools}
    \cup {[c \in Calls |-> <<OrderInfo(p[c], c)>>] : p \in Pools \X Pools}

AwaitedRuns ==
  {[c \in Calls |-> <<OrderInfo(AllowedPool, 1)>>]}

InitWith(infos, schedules, isAwaited) ==
  /\ orders = <<>>
  /\ defaultRoyalties \in schedules
  /\ awaited = isAwaited
  /\ idCalls = <<>>
  /\ orderInfos = infos
  /\ phase = [c \in DOMAIN infos |-> "idle"]
  /\ precededBy = [c \in DOMAIN infos |-> {}]
  /\ results = [c \in DOMAIN infos |-> <<>>]
  /\ orderValues = [c \in DOMAIN infos |-> <<>>]
  /\ statement = [c \in DOMAIN infos |-> <<>>]
  /\ published = [c \in DOMAIN infos |-> <<>>]
  /\ pc = [t \in TasksOf(infos) |-> "queued"]
  /\ curve = [t \in TasksOf(infos) |-> None]
  /\ priceList = [t \in TasksOf(infos) |-> <<>>]
  /\ feeBps = [t \in TasksOf(infos) |-> 0]
  /\ feeBreakdown = [t \in TasksOf(infos) |-> <<>>]
  /\ missingRoyalties = [t \in TasksOf(infos) |-> <<>>]
  /\ normalizedValue = [t \in TasksOf(infos) |-> 0]
  /\ poolOwnedTokenIds = [t \in TasksOf(infos) |-> <<>>]
  /\ tokenIndex = [t \in TasksOf(infos) |-> 0]
  /\ caught = [t \in TasksOf(infos) |-> {}]

Init ==
  \/ \E infos \in OverlappingRuns : InitWith(infos, {MixedSchedule}, FALSE)
  \/ \E infos \in AwaitedRuns : InitWith(infos, RoyaltySchedules \ {MixedSchedule}, TRUE)

(***************************************************************************)
(* The orders table                                                        *)
(***************************************************************************)
\* mutant: the lookup never finds the row
neverFound(table, id) == FALSE

\* SELECT 1 FROM orders WHERE orders.id = $/id/
oneOrNone(table, id) == \E k \in 1..Len(table) : table[k].id = id

\* UPDATE orders SET fillability_status = 'fillable', ... WHERE orders.id = $/id/
UpdateFillable(table, id, v) ==
  [k \in 1..Len(table) |->
     IF table[k].id = id
     THEN [table[k] EXCEPT !.fillability_status = "fillable",
                           !.price = v.price,
                           !.value = v.value,
                           !.quantity_remaining = v.quantity_remaining,
                           !.valid_from = v.valid_from,
                           !.expiration = None,
                           !.missing_royalties = v.missing_royalties,
                           !.normalized_value = v.normalized_value,
                           !.fee_bps = v.fee_bps,
                           !.fee_breakdown = v.fee_breakdown]
     ELSE table[k]]

\* UPDATE orders SET fillability_status = 'no-balance', expiration = to_timestamp(...)
UpdateNoBalance(table, id, txTimestamp) ==
  [k \in 1..Len(table) |->
     IF table[k].id = id
     THEN [table[k] EXCEPT !.fillability_status = "no-balance",
                           !.expiration = Some(txTimestamp)]
     ELSE table[k]]

\* variant: ON CONFLICT (id) DO UPDATE, the row that comes later replaces the stored one
RECURSIVE InsertOnConflictDoUpdate(_, _)
InsertOnConflictDoUpdate(table, rows) ==
  IF rows = <<>> THEN table
  ELSE LET row == Head(rows)
           next == IF \E k \in 1..Len(table) : table[k].id = row.id
                   THEN [k \in 1..Len(table) |->
                           IF table[k].id = row.id THEN row ELSE table[k]]
                   ELSE Append(table, row)
       IN InsertOnConflictDoUpdate(next, Tail(rows))

\* mutant: a plain INSERT into a table without the unique key
InsertAll(table, rows) == table \o rows

\* INSERT INTO orders ... ON CONFLICT DO NOTHING: a row whose id is in the
\* table, or earlier in the same statement, is dropped
RECURSIVE InsertOnConflictDoNothing(_, _)
InsertOnConflictDoNothing(table, rows) ==
  IF rows = <<>> THEN table
  ELSE InsertOnConflictDoNothing(
         IF \E k \in 1..Len(table) : table[k].id = Head(rows).id
         THEN table ELSE Append(table, Head(rows)),
         Tail(rows))

(***************************************************************************)
(* What handleOrder writes                                                 *)
(***************************************************************************)
\* id: `contract:${pool.nft}` and id: `token:${pool.nft}:${tokenId}`
ContractTokenSet(t) == <<"contract", PoolDetails(orderParams(t).pool).nft, 0>>
TokenTokenSet(t, id) == <<"token", PoolDetails(orderParams(t).pool).nft, id>>

\* mutant: every sampled depth is counted, priced or not
OrderFieldsAllDepths(t, direction) ==
  LET prices == Prices(priceList[t], direction)
  IN [ price |-> prices[1],
       value |-> priceList[t][1][direction][1],
       quantity_remaining |-> IF direction = "sell" THEN Len(priceList[t]) ELSE 1,
       valid_from |-> orderParams(t).txTimestamp,
       missing_royalties |-> missingRoyalties[t],
       normalized_value |-> normalizedValue[t],
       fee_bps |-> feeBps[t] ]

\* the values both the buffered row and the update carry
OrderFields(t, direction) ==
  LET prices == Prices(priceList[t], direction)
  IN [ price |-> prices[1],
       value |-> priceList[t][1][direction][1],
       quantity_remaining |-> IF direction = "sell" THEN Len(prices) ELSE 1,
       valid_from |-> orderParams(t).txTimestamp,
       missing_royalties |-> missingRoyalties[t],
       normalized_value |-> normalizedValue[t],
       fee_bps |-> feeBps[t] ]

\* orderValues.push({...}): fee_breakdown is the task's array itself, not a copy
DbOrder(t, id, side, tokenSetId, direction) ==
  LET f == OrderFields(t, direction)
  IN [ id |-> id, side |-> side, fillability_status |-> "fillable",
       token_set_id |-> tokenSetId,
       maker |-> PoolDetails(orderParams(t).pool).address,
       price |-> f.price, value |-> f.value,
       quantity_remaining |-> f.quantity_remaining,
       valid_from |-> f.valid_from, expiration |-> None,
       fee_bps |-> f.fee_bps, fee_breakdown |-> t,
       missing_royalties |-> f.missing_royalties,
       normalized_value |-> f.normalized_value ]

\* the parameters of the fillable update, rendered when the query is issued
UpdateParams(t, direction) ==
  LET f == OrderFields(t, direction)
  IN [ price |-> f.price, value |-> f.value,
       quantity_remaining |-> f.quantity_remaining,
       valid_from |-> f.valid_from,
       missing_royalties |-> f.missing_royalties,
       normalized_value |-> f.normalized_value,
       fee_bps |-> f.fee_bps, fee_breakdown |-> feeBreakdown[t] ]

SaveResult(t, id, triggerKind) ==
  [id |-> id, txHash |-> orderParams(t).txHash, status |-> "success",
   triggerKind |-> triggerKind]

\* pgp.helpers.insert(orderValues, columns): the arrays are read now
Render(rows) ==
  [k \in 1..Len(rows) |-> [rows[k] EXCEPT !.fee_breakdown = feeBreakdown[rows[k].fee_breakdown]]]

\* variant: only the orders that were created are announced
MessagesOfNewOrders(res) ==
  LET ok == SelectSeq(res, LAMBDA r : r.triggerKind = "new-order")
  IN [k \in 1..Len(ok) |->
        [ context |-> <<ok[k].triggerKind, ok[k].id, ok[k].txHash>>,
          id |-> ok[k].id,
          trigger |-> [kind |-> ok[k].triggerKind] ]]

\* results.filter(({ status }) => status === "success").map(...)
Messages(res) ==
  LET ok == SelectSeq(res, LAMBDA r : r.status = "success")
  IN [k \in 1..Len(ok) |->
        [ context |-> <<ok[k].triggerKind, ok[k].id, ok[k].txHash>>,
          id |-> ok[k].id,
          trigger |-> [kind |-> ok[k].triggerKind] ]]

MarketplaceFee(t, bps) ==
  [kind |-> "marketplace", recipient |-> PoolDetails(orderParams(t).pool).address, bps |-> bps]

(***************************************************************************)
(* save(): the fan-out under pLimit                                        *)
(***************************************************************************)
\* mutant: the fan-out is taken as over once one task is
SomeSettled(c) == \E t \in TasksOfCall(c) : pc[t] = "done"

Settled(c) == \A t \in TasksOfCall(c) : pc[t] = "done"
activeCount(c) == Cardinality({t \in TasksOfCall(c) : pc[t] \notin {"queued", "done"}})

\* mutant: no ceiling
unlimited(c) == TRUE

\* p-limit runs a queued function only while fewer than the limit are running
limit(c) == activeCount(c) < ConcurrencyLimit

\* a call of save(orderInfos)
StartSave(c) ==
  /\ phase[c] = "idle"
  /\ \A d \in DOMAIN phase :
       d < c => IF awaited THEN phase[d] \in {"returned", "rejected"} ELSE phase[d] # "idle"
  /\ phase' = [phase EXCEPT ![c] = "fanout"]
  /\ precededBy' = [precededBy EXCEPT ![c] = {d \in DOMAIN phase : phase[d] = "returned"}]
  /\ UNCHANGED <<storeVars, envVars, results, orderValues, statement, published, taskVars>>

\* limit(() => handleOrder(orderInfo)): the queue is served in order
StartTask(t) ==
  /\ phase[t[1]] = "fanout"
  /\ pc[t] = "queued"
  /\ \A u \in TasksOfCall(t[1]) : u[2] < t[2] => pc[u] # "queued"
  /\ limit(t[1])
  /\ pc' = [pc EXCEPT ![t] = "details"]
  /\ UNCHANGED <<storeVars, callVars, curve, priceList, feeBps, feeBreakdown, legVars, caught>>

(***************************************************************************)
(* handleOrder                                                             *)
(***************************************************************************)
\* handleOrder returns: its locals are dropped, but for the feeBreakdown array
\* the buffered rows still point to
Return(t) ==
  /\ pc' = [pc EXCEPT ![t] = "done"]
  /\ priceList' = [priceList EXCEPT ![t] = <<>>]
  /\ feeBps' = [feeBps EXCEPT ![t] = 0]
  /\ missingRoyalties' = [missingRoyalties EXCEPT ![t] = <<>>]
  /\ normalizedValue' = [normalizedValue EXCEPT ![t] = 0]
  /\ poolOwnedTokenIds' = [poolOwnedTokenIds EXCEPT ![t] = <<>>]
  /\ tokenIndex' = [tokenIndex EXCEPT ![t] = 0]
  /\ UNCHANGED curve

\* mutant: the error leaves handleOrder and Promise.all rejects
OuterRethrow(t) ==
  /\ caught' = [caught EXCEPT ![t] = @ \cup {<<"event", 0>>}]
  /\ Return(t)
  /\ phase' = [phase EXCEPT ![t[1]] = "rejected"]
  /\ UNCHANGED <<storeVars, envVars, precededBy, results, orderValues, statement, published,
                 feeBreakdown>>

\* the outer catch: the event is logged and dropped
OuterCatch(t) ==
  /\ caught' = [caught EXCEPT ![t] = @ \cup {<<"event", 0>>}]
  /\ Return(t)
  /\ UNCHANGED <<storeVars, callVars, feeBreakdown>>

\* getNftPoolDetails answered, the pool is the supported one
DetailsOk(t) ==
  /\ pc[t] = "details"
  /\ orderParams(t).pool = AllowedPool
  /\ pc' = [pc EXCEPT ![t] = "sample"]
  /\ priceList' = [priceList EXCEPT ![t] = <<>>]
  /\ UNCHANGED <<storeVars, callVars, curve, feeBps, feeBreakdown, legVars, caught>>

\* getNftPoolDetails answered, the pool is another one: return
NotAllowed(t) ==
  /\ pc[t] = "details"
  /\ orderParams(t).pool # AllowedPool
  /\ Return(t)
  /\ UNCHANGED <<storeVars, callVars, feeBreakdown, caught>>

\* getNftPoolDetails threw or gave no pool
DetailsFail(t) ==
  /\ pc[t] = "details"
  /\ OuterCatch(t)

\* variant: the loop is left at the first depth the oracle has no price for
SampleWhilePriced(t) ==
  /\ pc[t] = "sample"
  /\ \E cv \in Curves :
       /\ curve[t] \in {None, Some(cv.name)}
       /\ curve' = [curve EXCEPT ![t] = Some(cv.name)]
       /\ priceList' = [priceList EXCEPT ![t] = Append(@, getPoolPrice(cv, Len(@) + 1))]
       /\ IF \/ Len(priceList[t]) + 1 = Depth
             \/ (Len(priceList[t]) + 1) \notin (cv.sell \cup cv.buy)
          THEN /\ pc' = [pc EXCEPT ![t] = "buy"]
               /\ feeBps' = [feeBps EXCEPT ![t] = 0]
               /\ feeBreakdown' = [feeBreakdown EXCEPT ![t] = <<>>]
          ELSE UNCHANGED <<pc, feeBps, feeBreakdown>>
  /\ UNCHANGED <<storeVars, callVars, legVars, caught>>

\* getPoolPrice(pool, index + 1, ...) answered; after the last one the fee
\* locals are declared and the buy leg is entered
Sample(t) ==
  /\ pc[t] = "sample"
  /\ \E cv \in Curves :
       /\ curve[t] \in {None, Some(cv.name)}
       /\ curve' = [curve EXCEPT ![t] = Some(cv.name)]
       /\ priceList' = [priceList EXCEPT ![t] = Append(@, getPoolPrice(cv, Len(@) + 1))]
  /\ IF Len(priceList[t]) + 1 = Depth
     THEN /\ pc' = [pc EXCEPT ![t] = "buy"]
          /\ feeBps' = [feeBps EXCEPT ![t] = 0]
          /\ feeBreakdown' = [feeBreakdown EXCEPT ![t] = <<>>]
     ELSE UNCHANGED <<pc, feeBps, feeBreakdown>>
  /\ UNCHANGED <<storeVars, callVars, legVars, caught>>

\* getPoolPrice threw
SampleFail(t) ==
  /\ pc[t] = "sample"
  /\ OuterCatch(t)

(***************************************************************************)
(* handleOrder: the buy leg                                                *)
(***************************************************************************)
BuyAwaits == {"buyRoyalties", "buyRead", "buyTokenSet", "buySources", "buyUpdate", "buyNoBalance"}
BuyPcs == {"buy"} \cup BuyAwaits

buyId(t) == getOrderId(orderParams(t).pool, "buy", None)

\* the buy leg is over: on to the sell leg
BuyDone(t) ==
  /\ pc' = [pc EXCEPT ![t] = "sell"]
  /\ missingRoyalties' = [missingRoyalties EXCEPT ![t] = <<>>]
  /\ normalizedValue' = [normalizedValue EXCEPT ![t] = 0]
  /\ UNCHANGED <<curve, priceList, feeBps, feeBreakdown, poolOwnedTokenIds, tokenIndex>>

\* mutant: the buy leg has no catch of its own, the outer one takes the error
BuyEscapes(t) ==
  /\ caught' = [caught EXCEPT ![t] = @ \cup {<<"buy", 0>>}]
  /\ Return(t)
  /\ UNCHANGED <<storeVars, callVars, feeBreakdown>>

\* the buy leg's catch
BuyCatch(t) ==
  /\ caught' = [caught EXCEPT ![t] = @ \cup {<<"buy", 0>>}]
  /\ BuyDone(t)
  /\ UNCHANGED <<storeVars, callVars>>

\* const { sell, currency } = priceList[0]; ... if (sell) { fees } else { update }
BuyBegin(t) ==
  /\ pc[t] = "buy"
  /\ IF priceList[t][1].sell # None
     THEN /\ feeBps' = [feeBps EXCEPT ![t] = priceList[t][1].bps.sell]
          /\ feeBreakdown' = [feeBreakdown EXCEPT ![t] =
                                Append(@, MarketplaceFee(t, priceList[t][1].bps.sell))]
          /\ pc' = [pc EXCEPT ![t] = "buyRoyalties"]
     ELSE /\ pc' = [pc EXCEPT ![t] = "buyNoBalance"]
          /\ UNCHANGED <<feeBps, feeBreakdown>>
  /\ UNCHANGED <<storeVars, callVars, curve, priceList, legVars, caught>>

\* getRoyaltiesByTokenSet answered: royalties on top, normalizedValue, sdkOrder
BuyRoyalties(t) ==
  /\ pc[t] = "buyRoyalties"
  /\ LET prices == Prices(priceList[t], "sell")
     IN IF prices = <<>>
        THEN BuyCatch(t)
        ELSE LET missing == MissingRoyalties(defaultRoyalties, prices[1])
             IN /\ missingRoyalties' = [missingRoyalties EXCEPT ![t] = missing]
                /\ normalizedValue' = [normalizedValue EXCEPT ![t] =
                     priceList[t][1].sell[1] - MissingRoyaltyAmount(missing)]
                /\ pc' = [pc EXCEPT ![t] = "buyRead"]
                /\ UNCHANGED <<storeVars, callVars, curve, priceList, feeBps, feeBreakdown,
                               poolOwnedTokenIds, tokenIndex, caught>>

\* redb.oneOrNone answered: if (!orderResult) insert else update
BuyRead(t) ==
  /\ pc[t] = "buyRead"
  /\ pc' = [pc EXCEPT ![t] = IF oneOrNone(orders, buyId(t)) THEN "buyUpdate" ELSE "buyTokenSet"]
  /\ UNCHANGED <<storeVars, callVars, curve, priceList, feeBps, feeBreakdown, legVars, caught>>

\* tokenSet.contractWide.save answered with a token set id
BuyTokenSet(t) ==
  /\ pc[t] = "buyTokenSet"
  /\ pc' = [pc EXCEPT ![t] = "buySources"]
  /\ UNCHANGED <<storeVars, callVars, curve, priceList, feeBps, feeBreakdown, legVars, caught>>

\* Sources answered: the row is buffered and the result recorded
BuySources(t) ==
  /\ pc[t] = "buySources"
  /\ orderValues' = [orderValues EXCEPT ![t[1]] = Append(@, DbOrder(t, buyId(t), "buy", ContractTokenSet(t), "sell"))]
  /\ results' = [results EXCEPT ![t[1]] = Append(@, SaveResult(t, buyId(t), "new-order"))]
  /\ BuyDone(t)
  /\ UNCHANGED <<storeVars, envVars, phase, precededBy, statement, published, caught>>

\* the fillable update answered
BuyUpdate(t) ==
  /\ pc[t] = "buyUpdate"
  /\ orders' = UpdateFillable(orders, buyId(t), UpdateParams(t, "sell"))
  /\ results' = [results EXCEPT ![t[1]] = Append(@, SaveResult(t, buyId(t), "reprice"))]
  /\ BuyDone(t)
  /\ UNCHANGED <<defaultRoyalties, envVars, phase, precededBy, orderValues, statement,
                 published, caught>>

\* the no-balance update answered
BuyNoBalance(t) ==
  /\ pc[t] = "buyNoBalance"
  /\ orders' = UpdateNoBalance(orders, buyId(t), orderParams(t).txTimestamp)
  /\ results' = [results EXCEPT ![t[1]] = Append(@, SaveResult(t, buyId(t), "reprice"))]
  /\ BuyDone(t)
  /\ UNCHANGED <<defaultRoyalties, envVars, phase, precededBy, orderValues, statement,
                 published, caught>>

\* an await of the buy leg threw (or no token set id came back)
BuyFail(t) ==
  /\ pc[t] \in BuyAwaits
  /\ BuyCatch(t)

(***************************************************************************)
(* handleOrder: the sell leg                                               *)
(***************************************************************************)
SellHead == {"sellRoyalties", "sellGetNfts"}
ItemAwaits == {"sellRead", "sellTokenSet", "sellSources", "sellUpdate"}
SellPcs == {"sell"} \cup SellHead \cup ItemAwaits

tokenId(t) == poolOwnedTokenIds[t][tokenIndex[t]]
sellId(t) == getOrderId(orderParams(t).pool, "sell", tokenId(t))

\* the end of one iteration of for (const tokenId of poolOwnedTokenIds)
NextItem(t) ==
  IF tokenIndex[t] < Len(poolOwnedTokenIds[t])
  THEN /\ tokenIndex' = [tokenIndex EXCEPT ![t] = @ + 1]
       /\ pc' = [pc EXCEPT ![t] = "sellRead"]
       /\ UNCHANGED <<curve, priceList, feeBps, missingRoyalties, normalizedValue,
                      poolOwnedTokenIds>>
  ELSE Return(t)

\* mutant: one item's error ends the loop
ItemAborts(t) ==
  /\ caught' = [caught EXCEPT ![t] = @ \cup {<<"item", tokenId(t)>>}]
  /\ Return(t)
  /\ UNCHANGED <<storeVars, callVars, feeBreakdown>>

\* the per-item catch: // Ignore any errors
ItemCatch(t) ==
  /\ caught' = [caught EXCEPT ![t] = @ \cup {<<"item", tokenId(t)>>}]
  /\ NextItem(t)
  /\ UNCHANGED <<storeVars, callVars, feeBreakdown>>

\* the sell leg's catch
SellCatch(t) ==
  /\ caught' = [caught EXCEPT ![t] = @ \cup {<<"sell", 0>>}]
  /\ Return(t)
  /\ UNCHANGED <<storeVars, callVars, feeBreakdown>>

\* mutant: without a buy price the pool's sell orders are marked, as the buy leg does
SellBeginMarking(t) ==
  /\ pc[t] = "sell"
  /\ IF priceList[t][1].buy # None
     THEN /\ feeBps' = [feeBps EXCEPT ![t] = priceList[t][1].bps.buy]
          /\ feeBreakdown' = [feeBreakdown EXCEPT ![t] =
                                Append(@, MarketplaceFee(t, priceList[t][1].bps.buy))]
          /\ pc' = [pc EXCEPT ![t] = "sellRoyalties"]
          /\ UNCHANGED <<curve, priceList, legVars, orders>>
     ELSE /\ Return(t)
          /\ orders' = [k \in 1..Len(orders) |->
                          IF orders[k].side = "sell"
                          THEN [orders[k] EXCEPT !.fillability_status = "no-balance"]
                          ELSE orders[k]]
          /\ UNCHANGED feeBreakdown
  /\ UNCHANGED <<defaultRoyalties, callVars, caught>>

\* const { buy, currency } = priceList[0]; ... if (buy) { fees }
SellBegin(t) ==
  /\ pc[t] = "sell"
  /\ IF priceList[t][1].buy # None
     THEN /\ feeBps' = [feeBps EXCEPT ![t] = priceList[t][1].bps.buy]
          /\ feeBreakdown' = [feeBreakdown EXCEPT ![t] =
                                Append(@, MarketplaceFee(t, priceList[t][1].bps.buy))]
          /\ pc' = [pc EXCEPT ![t] = "sellRoyalties"]
          /\ UNCHANGED <<curve, priceList, legVars>>
     ELSE /\ Return(t)
          /\ UNCHANGED feeBreakdown
  /\ UNCHANGED <<storeVars, callVars, caught>>

\* getRoyaltiesByTokenSet answered
SellRoyalties(t) ==
  /\ pc[t] = "sellRoyalties"
  /\ LET prices == Prices(priceList[t], "buy")
     IN IF prices = <<>>
        THEN SellCatch(t)
        ELSE LET missing == MissingRoyalties(defaultRoyalties, prices[1])
             IN /\ missingRoyalties' = [missingRoyalties EXCEPT ![t] = missing]
                /\ normalizedValue' = [normalizedValue EXCEPT ![t] =
                     priceList[t][1].buy[1] + MissingRoyaltyAmount(missing)]
                /\ pc' = [pc EXCEPT ![t] = "sellGetNfts"]
                /\ UNCHANGED <<storeVars, callVars, curve, priceList, feeBps, feeBreakdown,
                               poolOwnedTokenIds, tokenIndex, caught>>

\* commonHelpers.getNfts answered: the loop starts (or has nothing to do)
SellGetNfts(t) ==
  /\ pc[t] = "sellGetNfts"
  /\ \E ids \in Inventories :
       IF ids = <<>>
       THEN Return(t)
       ELSE /\ poolOwnedTokenIds' = [poolOwnedTokenIds EXCEPT ![t] = ids]
            /\ tokenIndex' = [tokenIndex EXCEPT ![t] = 1]
            /\ pc' = [pc EXCEPT ![t] = "sellRead"]
            /\ UNCHANGED <<curve, priceList, feeBps, missingRoyalties, normalizedValue>>
  /\ UNCHANGED <<storeVars, callVars, feeBreakdown, caught>>

\* an await before the loop threw
SellFail(t) ==
  /\ pc[t] \in SellHead
  /\ SellCatch(t)

\* redb.oneOrNone answered
SellRead(t) ==
  /\ pc[t] = "sellRead"
  /\ pc' = [pc EXCEPT ![t] = IF oneOrNone(orders, sellId(t)) THEN "sellUpdate" ELSE "sellTokenSet"]
  /\ UNCHANGED <<storeVars, callVars, curve, priceList, feeBps, feeBreakdown, legVars, caught>>

\* tokenSet.singleToken.save answered with a token set id
SellTokenSet(t) ==
  /\ pc[t] = "sellTokenSet"
  /\ pc' = [pc EXCEPT ![t] = "sellSources"]
  /\ UNCHANGED <<storeVars, callVars, curve, priceList, feeBps, feeBreakdown, legVars, caught>>

\* Sources answered: the row is buffered and the result recorded
SellSources(t) ==
  /\ pc[t] = "sellSources"
  /\ orderValues' = [orderValues EXCEPT ![t[1]] = Append(@, DbOrder(t, sellId(t), "sell", TokenTokenSet(t, tokenId(t)), "buy"))]
  /\ results' = [results EXCEPT ![t[1]] = Append(@, SaveResult(t, sellId(t), "new-order"))]
  /\ NextItem(t)
  /\ UNCHANGED <<storeVars, envVars, phase, precededBy, statement, published,
                 feeBreakdown, caught>>

\* the fillable update answered
SellUpdate(t) ==
  /\ pc[t] = "sellUpdate"
  /\ orders' = UpdateFillable(orders, sellId(t), UpdateParams(t, "buy"))
  /\ results' = [results EXCEPT ![t[1]] = Append(@, SaveResult(t, sellId(t), "reprice"))]
  /\ NextItem(t)
  /\ UNCHANGED <<defaultRoyalties, envVars, phase, precededBy, orderValues, statement,
                 published, feeBreakdown, caught>>

\* an await of one item threw (or no token set id came back)
ItemFail(t) ==
  /\ pc[t] \in ItemAwaits
  /\ ItemCatch(t)

(***************************************************************************)
(* save(): the flush and the notification                                  *)
(***************************************************************************)
\* Promise.all resolved: the insert is issued if there is a row, else the queue call
AfterFanout(c) ==
  /\ phase[c] = "fanout"
  /\ Settled(c)
  /\ IF orderValues[c] # <<>>
     THEN /\ statement' = [statement EXCEPT ![c] = Render(orderValues[c])]
          /\ phase' = [phase EXCEPT ![c] = "inserting"]
     ELSE /\ phase' = [phase EXCEPT ![c] = "notifying"]
          /\ UNCHANGED statement
  /\ UNCHANGED <<storeVars, envVars, precededBy, results, orderValues, published, taskVars>>

\* the bulk insert answered; addToQueue is called
InsertDone(c) ==
  /\ phase[c] = "inserting"
  /\ orders' = InsertOnConflictDoNothing(orders, statement[c])
  /\ phase' = [phase EXCEPT ![c] = "notifying"]
  /\ UNCHANGED <<defaultRoyalties, envVars, precededBy, results, orderValues, statement,
                 published, taskVars>>

\* the bulk insert threw: save() rejects
InsertFail(c) ==
  /\ phase[c] = "inserting"
  /\ phase' = [phase EXCEPT ![c] = "rejected"]
  /\ UNCHANGED <<storeVars, envVars, precededBy, results, orderValues, statement,
                 published, taskVars>>

\* addToQueue answered: return results
QueueDone(c) ==
  /\ phase[c] = "notifying"
  /\ published' = [published EXCEPT ![c] = Messages(results[c])]
  /\ phase' = [phase EXCEPT ![c] = "returned"]
  /\ UNCHANGED <<storeVars, envVars, precededBy, results, orderValues, statement, taskVars>>

\* addToQueue threw: save() rejects
QueueFail(c) ==
  /\ phase[c] = "notifying"
  /\ phase' = [phase EXCEPT ![c] = "rejected"]
  /\ UNCHANGED <<storeVars, envVars, precededBy, results, orderValues, statement,
                 published, taskVars>>

(***************************************************************************)
(* Specification                                                           *)
(***************************************************************************)
Next ==
  \/ \E c \in DOMAIN phase : StartSave(c)
  \/ \E c \in DOMAIN phase : AfterFanout(c)
  \/ \E c \in DOMAIN phase : InsertDone(c)
  \/ \E c \in DOMAIN phase : InsertFail(c)
  \/ \E c \in DOMAIN phase : QueueDone(c)
  \/ \E c \in DOMAIN phase : QueueFail(c)
  \/ \E t \in Tasks : StartTask(t)
  \/ \E t \in Tasks : DetailsOk(t)
  \/ \E t \in Tasks : NotAllowed(t)
  \/ \E t \in Tasks : DetailsFail(t)
  \/ \E t \in Tasks : Sample(t)
  \/ \E t \in Tasks : SampleFail(t)
  \/ \E t \in Tasks : BuyBegin(t)
  \/ \E t \in Tasks : BuyRoyalties(t)
  \/ \E t \in Tasks : BuyRead(t)
  \/ \E t \in Tasks : BuyTokenSet(t)
  \/ \E t \in Tasks : BuySources(t)
  \/ \E t \in Tasks : BuyUpdate(t)
  \/ \E t \in Tasks : BuyNoBalance(t)
  \/ \E t \in Tasks : BuyFail(t)
  \/ \E t \in Tasks : SellBegin(t)
  \/ \E t \in Tasks : SellRoyalties(t)
  \/ \E t \in Tasks : SellGetNfts(t)
  \/ \E t \in Tasks : SellFail(t)
  \/ \E t \in Tasks : SellRead(t)
  \/ \E t \in Tasks : SellTokenSet(t)
  \/ \E t \in Tasks : SellSources(t)
  \/ \E t \in Tasks : SellUpdate(t)
  \/ \E t \in Tasks : ItemFail(t)

Spec == Init /\ [][Next]_vars

(***************************************************************************)
(* A batch larger than the concurrency ceiling: events of another pool,    *)
(* which handleOrder leaves as soon as the pool's details are back         *)
(***************************************************************************)
LargeBatch == [i \in 1..(ConcurrencyLimit + ExtraEvents) |-> OrderInfo(OtherPool, 1)]

InitLarge == InitWith([c \in {1} |-> LargeBatch], {MixedSchedule}, FALSE)

\* The events of the large batch are alike, so which of the running tasks
\* gets its answer first makes no difference: the oldest does.  Every third
\* lookup fails, the first one included.
Oldest(t) == \A u \in TasksOfCall(t[1]) : u[2] < t[2] => pc[u] = "done"

NextLarge ==
  \/ \E c \in DOMAIN phase : StartSave(c)
  \/ \E c \in DOMAIN phase : AfterFanout(c)
  \/ \E c \in DOMAIN phase : QueueDone(c)
  \/ \E t \in Tasks : StartTask(t)
  \/ \E t \in Tasks : Oldest(t) /\ t[2] % 3 # 1 /\ NotAllowed(t)
  \/ \E t \in Tasks : Oldest(t) /\ t[2] % 3 = 1 /\ DetailsFail(t)

SpecLarge == InitLarge /\ [][NextLarge]_vars

(***************************************************************************)
(* getOrderId on its own: it is exported, and called with any pool, side   *)
(* and token id                                                            *)
(***************************************************************************)
Identities ==
  {<<p, "buy", None>> : p \in Pools}
    \cup {<<p, "sell", Some(i)>> : p \in Pools, i \in 0..MaxTokenId}

CallGetOrderId ==
  /\ Len(idCalls) < MaxIdCalls
  /\ \E a \in Identities :
       idCalls' = Append(idCalls,
         [ pool |-> a[1], side |-> a[2], tokenId |-> a[3],
           id |-> getOrderId(a[1], a[2], IF a[3] = None THEN None ELSE a[3][1]) ])
  /\ UNCHANGED <<storeVars, awaited, orderInfos, phase, precededBy, results, orderValues,
                 statement, published, taskVars>>

InitIds == InitWith([c \in {1} |-> <<>>], {MixedSchedule}, FALSE)

NextIds == CallGetOrderId

SpecIds == InitIds /\ [][NextIds]_vars

(***************************************************************************)
(* Properties                                                              *)
(***************************************************************************)
RowsWithId(id) == {k \in 1..Len(orders) : orders[k].id = id}
InSeq(seq, P(_)) == \E k \in 1..Len(seq) : P(seq[k])
PoolBuyId == getOrderId(AllowedPool, "buy", None)

\* the depths of a ladder that carry a raw price in a direction
PricedDepths(ladder, direction) == {d \in 1..Len(ladder) : ladder[d].raw[direction] # None}
FirstPriced(ladder, direction) ==
  LET d == CHOOSE d \in PricedDepths(ladder, direction) :
             \A e \in PricedDepths(ladder, direction) : d <= e
  IN ladder[d].raw[direction][1]

\* the step is task t's await answering without an error
Answered(t, at) == pc[t] = at /\ pc'[t] # at /\ caught'[t] = caught[t]
\* the step is task t's await throwing
Threw(t) == caught'[t] # caught[t]
NothingWritten == orders' = orders /\ orderValues' = orderValues /\ results' = results

\* C1: in every reachable state the orders table holds at most one row per order
\* identity: at most one buy row per pool and one sell row per (pool, token id),
\* whatever the interleaving of the save() calls and of their events.
C1_OneRowPerIdentity ==
  \A i \in 1..Len(orders) : \A j \in 1..Len(orders) :
    i # j =>
      /\ orders[i].id # orders[j].id
      /\ ~ ( /\ orders[i].maker = orders[j].maker
             /\ orders[i].side = orders[j].side
             /\ orders[i].token_set_id = orders[j].token_set_id )

\* two overlapping calls both buffered the pool's buy order, both flushed, and
\* the table holds it once
C1_Witness ==
  /\ DOMAIN phase = Calls
  /\ ~awaited
  /\ \A c \in Calls :
       /\ phase[c] = "returned"
       /\ precededBy[c] = {}
       /\ InSeq(statement[c], LAMBDA r : r.id = PoolBuyId)
  /\ Cardinality(RowsWithId(PoolBuyId)) = 1

\* C2: a save() call made after an earlier one returned, the earlier one having
\* inserted the pool's buy order, records for that identity only results tagged
\* reprice and the table keeps exactly one row of it; the update that answers
\* rewrites that row in place with price = the first priced sell-direction depth
\* and quantity_remaining = the number of priced depths.
C2_State ==
  \A c \in DOMAIN phase : \A d \in precededBy[c] :
    InSeq(statement[d], LAMBDA r : r.id = PoolBuyId) =>
      /\ \A k \in 1..Len(results[c]) :
           results[c][k].id = PoolBuyId => results[c][k].triggerKind = "reprice"
      /\ ~InSeq(orderValues[c], LAMBDA r : r.id = PoolBuyId)
      /\ Cardinality(RowsWithId(PoolBuyId)) = 1

C2_Step ==
  \A t \in Tasks :
    Answered(t, "buyUpdate") =>
      LET id == getOrderId(orderParams(t).pool, "buy", None)
      IN /\ results'[t[1]] = Append(results[t[1]],
              [id |-> id, txHash |-> orderParams(t).txHash, status |-> "success",
               triggerKind |-> "reprice"])
         /\ orderValues' = orderValues
         /\ Len(orders') = Len(orders)
         /\ \A k \in 1..Len(orders) :
              IF orders[k].id = id
              THEN /\ orders'[k].id = id
                   /\ orders'[k].fillability_status = "fillable"
                   /\ orders'[k].price = FirstPriced(priceList[t], "sell")
                   /\ orders'[k].quantity_remaining
                        = Cardinality(PricedDepths(priceList[t], "sell"))
              ELSE orders'[k] = orders[k]

\* C2: a later save() of an order already inserted reprices it and rewrites its
\* one row in place (the state part always, the step part at every update).
C2_RepriceInPlace == [](C2_State) /\ [][C2_Step]_vars

\* the second call returned a reprice of the buy order the first call inserted,
\* and the row now carries another price than the one inserted
C2_Witness ==
  /\ 2 \in DOMAIN phase
  /\ phase[2] = "returned"
  /\ precededBy[2] = {1}
  /\ InSeq(results[2], LAMBDA r : r.id = PoolBuyId /\ r.triggerKind = "reprice")
  /\ Cardinality(RowsWithId(PoolBuyId)) = 1
  /\ \E k \in RowsWithId(PoolBuyId) :
       /\ orders[k].fillability_status = "fillable"
       /\ InSeq(statement[1], LAMBDA r : r.id = PoolBuyId /\ r.price # orders[k].price
                                          /\ r.quantity_remaining # orders[k].quantity_remaining)

\* C3: when the depth-1 quote has a sell price and the lookup finds no buy order,
\* the buy leg, unless one of its awaits throws, buffers exactly one row: at the
\* step its last await answers, with id = getOrderId(pool, "buy"), price = the
\* first ladder entry with a raw sell price and quantity_remaining = the number
\* of such entries, together with one result tagged new-order; no other step of
\* the leg buffers a row or records a new-order result.
C3_Step ==
  \A t \in Tasks :
    (pc[t] \in BuyPcs /\ pc'[t] # pc[t]) =>
      LET c == t[1]
          id == getOrderId(orderParams(t).pool, "buy", None)
      IN /\ Answered(t, "buy") /\ priceList[t][1].sell # None => pc'[t] = "buyRoyalties"
         /\ Answered(t, "buyRoyalties") => pc'[t] = "buyRead"
         /\ Answered(t, "buyRead") /\ RowsWithId(id) = {} => pc'[t] = "buyTokenSet"
         /\ Answered(t, "buyTokenSet") => pc'[t] = "buySources"
         /\ IF Answered(t, "buySources")
            THEN /\ Len(orderValues'[c]) = Len(orderValues[c]) + 1
                 /\ SubSeq(orderValues'[c], 1, Len(orderValues[c])) = orderValues[c]
                 /\ LET row == orderValues'[c][Len(orderValues'[c])]
                    IN /\ row.id = id
                       /\ row.side = "buy"
                       /\ row.price = FirstPriced(priceList[t], "sell")
                       /\ row.quantity_remaining
                            = Cardinality(PricedDepths(priceList[t], "sell"))
                 /\ results'[c] = Append(results[c],
                      [id |-> id, txHash |-> orderParams(t).txHash, status |-> "success",
                       triggerKind |-> "new-order"])
                 /\ pc'[t] = "sell"
            ELSE /\ orderValues' = orderValues
                 /\ \/ results' = results
                    \/ /\ Len(results'[c]) = Len(results[c]) + 1
                       /\ results'[c][Len(results'[c])].triggerKind = "reprice"

\* C3: every step of the buy leg is as C3_Step says: one row with the pool's buy
\* id, the first priced sell quote and the count of priced depths, and one
\* new-order result, at the last await of the insert branch and nowhere else.
C3_NewBuyOrder == [][C3_Step]_vars

\* a buy order was buffered from a ladder with a gap: depths 1 and 3 priced,
\* so 2 priced entries, and the new-order result is recorded
C3_Witness ==
  \E t \in Tasks :
    /\ curve[t] = Some("gap")
    /\ pc[t] = "sell"
    /\ InSeq(orderValues[t[1]],
             LAMBDA r : r.id = PoolBuyId /\ r.quantity_remaining = 2 /\ r.price = 905
                          /\ r.valid_from = orderParams(t).txTimestamp)
    /\ InSeq(results[t[1]],
             LAMBDA r : r.id = PoolBuyId /\ r.triggerKind = "new-order"
                          /\ r.txHash = orderParams(t).txHash)

\* C4: when the depth-1 quote has no sell price, the no-balance update that
\* answers marks an existing buy order unfillable with expiration = the
\* transaction's time; and with no buy order in the table the buy leg writes no
\* row and records no result.
C4_Step ==
  \A t \in Tasks :
    Answered(t, "buyNoBalance") =>
      LET id == getOrderId(orderParams(t).pool, "buy", None)
      IN IF RowsWithId(id) # {}
         THEN /\ Len(orders') = Len(orders)
              /\ \A k \in RowsWithId(id) :
                   /\ orders'[k].fillability_status = "no-balance"
                   /\ orders'[k].expiration = Some(orderParams(t).txTimestamp)
         ELSE NothingWritten

\* C4: every no-balance update marks the existing buy order, and with no buy
\* order in the table writes nothing and records no result.
C4_NoSellPrice == [][C4_Step]_vars

\* the part of C4 the code keeps: the existing buy order is marked
C4_MarksExisting ==
  [][\A t \in Tasks :
       Answered(t, "buyNoBalance") =>
         /\ Len(orders') = Len(orders)
         /\ orderValues' = orderValues
         /\ \A k \in 1..Len(orders) :
              IF orders[k].id = getOrderId(orderParams(t).pool, "buy", None)
              THEN /\ orders'[k].fillability_status = "no-balance"
                   /\ orders'[k].expiration = Some(orderParams(t).txTimestamp)
              ELSE orders'[k] = orders[k]]_vars

\* the results and the buffered rows that task t's sell leg left
SellResultsOf(t) ==
  {k \in 1..Len(results[t[1]]) :
     /\ results[t[1]][k].txHash = orderParams(t).txHash
     /\ results[t[1]][k].id # getOrderId(orderParams(t).pool, "buy", None)}
SellRowsOf(t) ==
  {k \in 1..Len(orderValues[t[1]]) :
     /\ orderValues[t[1]][k].valid_from = orderParams(t).txTimestamp
     /\ orderValues[t[1]][k].side = "sell"}

\* C5: a sell leg whose depth-1 quote has no buy price ends at its guard, and one
\* that finds the pool holding no item ends at the item listing; no step of the
\* leg before the item loop writes a row, buffers a row or records a result, so
\* such a leg leaves no sell row, no sell result and every existing row as it was.
C5_Step ==
  \A t \in Tasks :
    (pc[t] \in {"sell", "sellRoyalties", "sellGetNfts"} /\ pc'[t] # pc[t]) =>
      /\ NothingWritten
      /\ (pc[t] = "sell" /\ priceList[t][1].buy = None) => pc'[t] = "done"
      /\ (pc[t] = "sellGetNfts" /\ pc'[t] # "done") =>
           /\ pc'[t] = "sellRead"
           /\ poolOwnedTokenIds'[t] # <<>>
           /\ tokenIndex'[t] = 1
      /\ pc'[t] = "done" => poolOwnedTokenIds'[t] = <<>>

C5_State ==
  \A t \in Tasks :
    /\ (priceList[t] # <<>> /\ Len(priceList[t]) = Depth /\ priceList[t][1].buy = None)
         => (SellResultsOf(t) = {} /\ SellRowsOf(t) = {} /\ pc[t] \in BuyPcs \cup {"sell"})
    /\ (pc[t] = "done" /\ curve[t] \in {Some("gap"), Some("dry")})
         => (SellResultsOf(t) = {} /\ SellRowsOf(t) = {})
    /\ pc[t] \in ItemAwaits =>
         /\ poolOwnedTokenIds[t] # <<>>
         /\ priceList[t][1].buy # None

\* C5: without a buy price or without a held item the sell leg produces no sell
\* order, no sell result and changes no row.
C5_SellLegSkips == [](C5_State) /\ [][C5_Step]_vars

\* a redelivered event met a quote without a buy price: its sell leg is over
\* without a failure, and the sell orders the first delivery inserted are
\* still there, fillable
C5_Witness ==
  /\ 2 \in DOMAIN phase
  /\ phase[2] = "returned"
  /\ precededBy[2] = {1}
  /\ \E t \in TasksOfCall(2) :
       /\ pc[t] = "done"
       /\ curve[t] \in {Some("gap"), Some("dry")}
       /\ caught[t] = {}
       /\ SellResultsOf(t) = {}
  /\ \E k \in 1..Len(orders) :
       /\ orders[k].side = "sell"
       /\ orders[k].fillability_status = "fillable"
       /\ orders[k].expiration = None

\* C6: every step of the buy leg, a throwing await included, leaves the task in
\* the buy leg or at the start of the sell leg, never past it; a throwing await
\* of the buy leg goes to the sell leg; and a throwing await of either leg
\* leaves the table, the buffered rows and the recorded results as they were.
C6_Step ==
  \A t \in Tasks :
    /\ (pc[t] \in BuyPcs /\ pc'[t] # pc[t]) => pc'[t] \in BuyPcs \cup {"sell"}
    /\ (pc[t] \in BuyPcs /\ Threw(t)) =>
         /\ pc'[t] = "sell"
         /\ caught'[t] = caught[t] \cup {<<"buy", 0>>}
         /\ priceList'[t] = priceList[t]
         /\ NothingWritten
    /\ (pc[t] \in SellPcs /\ Threw(t)) => NothingWritten

\* C6: a failure of the buy leg leads to the sell leg, and a failure of either
\* leg undoes nothing already written, buffered or recorded.
C6_LegsIsolated == [][C6_Step]_vars

\* one event's buy leg failed and its sell leg inserted a sell order; another
\* event's sell leg failed and the result of its buy leg is returned
C6_Witness ==
  /\ \E t \in Tasks :
       /\ <<"buy", 0>> \in caught[t]
       /\ pc[t] = "done"
       /\ SellResultsOf(t) # {}
       /\ SellRowsOf(t) # {}
  /\ \E t \in Tasks :
       /\ <<"sell", 0>> \in caught[t]
       /\ pc[t] = "done"
       /\ phase[t[1]] = "returned"
       /\ InSeq(results[t[1]], LAMBDA r : r.id = PoolBuyId /\ r.txHash = orderParams(t).txHash)
       /\ InSeq(statement[t[1]], LAMBDA r : r.id = PoolBuyId)

\* C7: a throwing await of one item writes nothing, buffers nothing and records
\* nothing; the loop goes on with the next item, and ends only after the last;
\* an item that failed has no result of its event.
C7_Step ==
  \A t \in Tasks :
    (pc[t] \in ItemAwaits /\ Threw(t)) =>
      /\ NothingWritten
      /\ caught'[t] = caught[t] \cup {<<"item", poolOwnedTokenIds[t][tokenIndex[t]]>>}
      /\ IF tokenIndex[t] < Len(poolOwnedTokenIds[t])
         THEN /\ pc'[t] = "sellRead"
              /\ tokenIndex'[t] = tokenIndex[t] + 1
              /\ poolOwnedTokenIds'[t] = poolOwnedTokenIds[t]
              /\ priceList'[t] = priceList[t]
         ELSE pc'[t] = "done"

C7_State ==
  \A t \in Tasks : \A i \in 1..MaxItems :
    <<"item", i>> \in caught[t] =>
      /\ \A k \in SellResultsOf(t) :
           results[t[1]][k].id # getOrderId(orderParams(t).pool, "sell", i)
      /\ \A k \in SellRowsOf(t) :
           orderValues[t[1]][k].id # getOrderId(orderParams(t).pool, "sell", i)

\* C7: a failing item contributes nothing and the loop goes on with the others.
C7_ItemsIsolated == [](C7_State) /\ [][C7_Step]_vars

\* item 1 failed; item 2 of the same event was inserted after it and the buy
\* order of the event too
C7_Witness ==
  \E t \in Tasks :
    /\ pc[t] = "done"
    /\ caught[t] = {<<"item", 1>>}
    /\ InSeq(results[t[1]],
             LAMBDA r : r.id = getOrderId(AllowedPool, "sell", 2)
                          /\ r.txHash = orderParams(t).txHash)
    /\ InSeq(orderValues[t[1]],
             LAMBDA r : r.id = getOrderId(AllowedPool, "sell", 2)
                          /\ r.valid_from = orderParams(t).txTimestamp)
    /\ InSeq(results[t[1]],
             LAMBDA r : r.id = PoolBuyId /\ r.txHash = orderParams(t).txHash)

\* C8: no step of an event before its legs (the details lookup, the allow-list
\* test, the sampling) writes to the table, buffers a row, records a result,
\* changes the phase of the call or moves another event; a failure there ends
\* the event only; an event that was skipped has no result and no buffered row.
C8_Step ==
  \A t \in Tasks :
    (pc[t] \in {"details", "sample"} /\ (pc'[t] # pc[t] \/ priceList'[t] # priceList[t])) =>
      /\ NothingWritten
      /\ phase' = phase
      /\ statement' = statement
      /\ \A u \in Tasks \ {t} : pc'[u] = pc[u]
      /\ Threw(t) => pc'[t] = "done"
      /\ (pc[t] = "details" /\ orderParams(t).pool # AllowedPool) => pc'[t] = "done"

C8_State ==
  \A t \in Tasks :
    (<<"event", 0>> \in caught[t] \/ (pc[t] = "done" /\ orderParams(t).pool # AllowedPool)) =>
      /\ pc[t] = "done"
      /\ \A k \in 1..Len(results[t[1]]) :
           results[t[1]][k].txHash # orderParams(t).txHash
      /\ \A k \in 1..Len(orderValues[t[1]]) :
           orderValues[t[1]][k].valid_from # orderParams(t).txTimestamp

\* C8: a skipped event writes nothing, buffers nothing, has no result and
\* neither stops the other events nor the call.
C8_SkippedEvent == [](C8_State) /\ [][C8_Step]_vars

\* a batch of two events returned: the first was dropped by the outer catch
\* after some samples, the second is in the results and in the table
C8_Witness ==
  /\ phase[1] = "returned"
  /\ <<1, 2>> \in Tasks
  /\ <<"event", 0>> \in caught[<<1, 1>>]
  /\ curve[<<1, 1>>] # None
  /\ InSeq(results[1], LAMBDA r : r.txHash = orderParams(<<1, 2>>).txHash)
  /\ InSeq(statement[1], LAMBDA r : r.valid_from = orderParams(<<1, 2>>).txTimestamp)
  /\ \E k \in 1..Len(orders) : orders[k].valid_from = orderParams(<<1, 2>>).txTimestamp

\* the events of call c that have started and not finished, and those finished
InFlight(c) == {t \in Tasks : t[1] = c /\ pc[t] \notin {"queued", "done"}}
Finished(c) == {t \in Tasks : t[1] = c /\ pc[t] = "done"}

\* C9: at every point of a batch of more than 20 events at most 20 of them have
\* started and not finished; an event starts only when fewer than 20 are in
\* flight, so the i-th event, i > 20, starts only once i - 20 have finished, by
\* returning or by a failure the outer catch took.
C9_State ==
  \A c \in DOMAIN phase : Cardinality(InFlight(c)) <= ConcurrencyLimit

C9_Step ==
  \A t \in Tasks :
    (pc[t] = "queued" /\ pc'[t] # "queued") =>
      /\ Cardinality(InFlight(t[1])) < ConcurrencyLimit
      /\ t[2] > ConcurrencyLimit =>
           Cardinality(Finished(t[1])) >= t[2] - ConcurrencyLimit

\* C9: never more than ConcurrencyLimit events in flight, and a queued event
\* starts only when one in flight has finished.
C9_BoundedFanout == [](C9_State) /\ [][C9_Step]_vars

\* the event after the ceiling has started and the ceiling is reached again;
\* the event that made room ended in the outer catch
C9_Witness ==
  /\ pc[<<1, ConcurrencyLimit + 1>>] = "details"
  /\ Cardinality(InFlight(1)) = ConcurrencyLimit
  /\ Finished(1) = {<<1, 1>>}
  /\ <<"event", 0>> \in caught[<<1, 1>>]

\* C10: a call is past its fan-out only when every event of it has finished; the
\* insert statement is built once, past the fan-out, from all the buffered
\* rows in their order, and the buffer does not change afterwards; the queue
\* call is made, and the call returns, only after the insert answered (the rows
\* of the statement are in the table) or when there was nothing to insert; and
\* the phases never go backwards.
PastFanout == {"inserting", "notifying", "returned", "rejected"}
PhaseRank(ph) ==
  CASE ph = "idle" -> 0
    [] ph = "fanout" -> 1
    [] ph = "inserting" -> 2
    [] ph = "notifying" -> 3
    [] OTHER -> 4

C10_State ==
  \A c \in DOMAIN phase :
    /\ phase[c] \in PastFanout => \A t \in Tasks : t[1] = c => pc[t] = "done"
    /\ phase[c] \notin PastFanout => statement[c] = <<>> /\ published[c] = <<>>
    /\ phase[c] \in PastFanout =>
         /\ Len(statement[c]) = Len(orderValues[c])
         /\ \A k \in 1..Len(statement[c]) :
              /\ statement[c][k].id = orderValues[c][k].id
              /\ statement[c][k].price = orderValues[c][k].price
              /\ statement[c][k].valid_from = orderValues[c][k].valid_from
    /\ phase[c] \in {"notifying", "returned"} =>
         \A k \in 1..Len(statement[c]) : RowsWithId(statement[c][k].id) # {}
    /\ published[c] # <<>> => phase[c] = "returned"

C10_Step ==
  \A c \in DOMAIN phase :
    /\ PhaseRank(phase'[c]) >= PhaseRank(phase[c])
    /\ phase[c] \in PastFanout =>
         /\ statement'[c] = statement[c]
         /\ orderValues'[c] = orderValues[c]
         /\ results'[c] = results[c]
    /\ (phase[c] = "fanout" /\ phase'[c] # "fanout") =>
         phase'[c] = (IF orderValues[c] = <<>> THEN "notifying" ELSE "inserting")
    /\ (phase[c] = "inserting" /\ phase'[c] = "notifying") =>
         \A k \in 1..Len(statement[c]) :
           \E j \in 1..Len(orders') : orders'[j].id = statement[c][k].id

\* C10: fan-out, then at most one insert of all buffered rows, then the
\* notifications, in that order.
C10_PhasesOrdered == [](C10_State) /\ [][C10_Step]_vars

\* a batch of two events returned: one insert held the rows of both events,
\* the rows are in the table and the notifications went out
C10_Witness ==
  /\ phase[1] = "returned"
  /\ published[1] # <<>>
  /\ InSeq(statement[1], LAMBDA r : r.valid_from = 1001)
  /\ InSeq(statement[1], LAMBDA r : r.valid_from = 1002)
  /\ Len(statement[1]) >= 3
  /\ \A k \in 1..Len(statement[1]) : RowsWithId(statement[1][k].id) # {}

\* C11: a call that returned has published one message per entry of the result
\* list it returns, in the same order, each with that entry's order id, its
\* trigger kind (new-order or reprice) and, in its context, the transaction
\* hash; nothing is published before the call is through its flush, and a call
\* that rejected published nothing.
C11_OneMessagePerResult ==
  \A c \in DOMAIN phase :
    /\ phase[c] # "returned" => published[c] = <<>>
    /\ phase[c] = "returned" =>
         /\ Len(published[c]) = Len(results[c])
         /\ \A k \in 1..Len(results[c]) :
              /\ published[c][k].id = results[c][k].id
              /\ published[c][k].trigger.kind = results[c][k].triggerKind
              /\ published[c][k].trigger.kind \in {"new-order", "reprice"}
              /\ published[c][k].context
                   = <<results[c][k].triggerKind, results[c][k].id, results[c][k].txHash>>
         /\ \A k \in 1..Len(statement[c]) : RowsWithId(statement[c][k].id) # {}

\* a call returned with a reprice of the pool's buy order and a newly inserted
\* sell order: two messages at least, of both kinds
C11_Witness ==
  \E c \in DOMAIN phase :
    /\ phase[c] = "returned"
    /\ Len(published[c]) >= 2
    /\ InSeq(published[c], LAMBDA m : m.trigger.kind = "reprice" /\ m.id = PoolBuyId)
    /\ InSeq(published[c], LAMBDA m : m.trigger.kind = "new-order" /\ m.id # PoolBuyId)
    /\ InSeq(results[c], LAMBDA r : r.triggerKind = "reprice")

\* C12: an insert that answers leaves every row already in the table exactly as
\* it was, and adds only rows whose id was not there: when two overlapping calls
\* both buffered an order that neither found, the one whose insert answers
\* second goes on to its notifications and the row of the first stays.
C12_Step ==
  \A c \in DOMAIN phase :
    (phase[c] = "inserting" /\ phase'[c] = "notifying") =>
      /\ Len(orders') >= Len(orders)
      /\ \A k \in 1..Len(orders) : orders'[k] = orders[k]
      /\ \A k \in (Len(orders) + 1)..Len(orders') :
           /\ \A j \in 1..Len(orders) : orders[j].id # orders'[k].id
           /\ \E j \in 1..Len(statement[c]) : statement[c][j] = orders'[k]

C12_FirstInsertWins == [][C12_Step]_vars

\* two overlapping calls both inserted the pool's buy order, at different
\* prices, and both returned: the table holds the row of one of them, whole
C12_Witness ==
  /\ DOMAIN phase = Calls
  /\ \A c \in Calls : phase[c] = "returned" /\ precededBy[c] = {}
  /\ \E k \in 1..Len(orders) :
       /\ orders[k].id = PoolBuyId
       /\ InSeq(statement[1], LAMBDA r : r.id = PoolBuyId)
       /\ InSeq(statement[2], LAMBDA r : r.id = PoolBuyId /\ r.price # orders[k].price)
       /\ InSeq(statement[1], LAMBDA r : r = orders[k])

\* the rows a leg wrote: those in the table and those buffered for the insert
AllWritten(P(_)) ==
  /\ \A k \in 1..Len(orders) : P(orders[k])
  /\ \A c \in DOMAIN phase : \A k \in 1..Len(orderValues[c]) : P(orderValues[c][k])
SomeWritten(P(_)) ==
  \/ \E k \in 1..Len(orders) : P(orders[k])
  \/ \E c \in DOMAIN phase : \E k \in 1..Len(orderValues[c]) : P(orderValues[c][k])
BpsTotal == LET s == defaultRoyalties
            IN IF Len(s) = 0 THEN 0 ELSE IF Len(s) = 1 THEN s[1].bps ELSE s[1].bps + s[2].bps

\* C13: every row in the table or in an insert buffer has normalized_value <=
\* value when it is a buy order and normalized_value >= value when it is a sell
\* order, under each royalty schedule.
C13_NormalizedValueSide ==
  AllWritten(LAMBDA row :
    /\ row.side = "buy" => row.normalized_value <= row.value
    /\ row.side = "sell" => row.normalized_value >= row.value)

\* under a schedule with royalties to pay, a buy order below its value and a
\* sell order above it are in the table, the buy order after an update
C13_Witness ==
  /\ BpsTotal > 0
  /\ SomeWritten(LAMBDA row : row.side = "buy" /\ row.normalized_value < row.value)
  /\ \E k \in 1..Len(orders) :
       orders[k].side = "sell" /\ orders[k].normalized_value > orders[k].value
  /\ \E c \in DOMAIN phase :
       InSeq(results[c], LAMBDA r : r.triggerKind = "reprice" /\ r.id = PoolBuyId)

\* C14: under a default schedule of 0 bps in total every row written has
\* normalized_value = value and no missing royalties, buy or sell.
C14_NoRoyaltiesNoTopUp ==
  BpsTotal = 0 =>
    AllWritten(LAMBDA row :
      /\ row.normalized_value = row.value
      /\ row.missing_royalties = <<>>)

\* under the empty schedule a buy order and a sell order are in the table
C14_Witness ==
  /\ BpsTotal = 0
  /\ \E k \in 1..Len(orders) : orders[k].side = "buy" /\ orders[k].normalized_value = orders[k].value
  /\ \E k \in 1..Len(orders) : orders[k].side = "sell" /\ orders[k].normalized_value = orders[k].value

\* what C15 says of one row, with base the amount the top-up is added to or
\* taken from
RoyaltyTopUp(row, base) ==
  LET valid == ValidRecipients(defaultRoyalties)
      amount == (row.price * BpsTotal) \div BpsDenominator
  IN IF BpsTotal > 0 /\ valid # <<>>
     THEN /\ row.missing_royalties
               = <<[bps |-> BpsTotal, amount |-> amount, recipient |-> valid[1].recipient]>>
          /\ row.normalized_value = IF row.side = "buy" THEN base - amount ELSE base + amount
     ELSE /\ row.missing_royalties = <<>>
          /\ row.normalized_value = base

\* C15: with royalties to pay and a valid recipient the top-up of every row
\* written is one entry of the whole default total, floor(price * total / 10000),
\* to the first valid recipient, and normalized_value is the row's price minus
\* (buy) or plus (sell) that amount; with no valid recipient there is no entry
\* and normalized_value is the price.
C15_TopUpOnPrice == AllWritten(LAMBDA row : RoyaltyTopUp(row, row.price))

\* what the code does: the amount is computed from the price, and taken from or
\* added to the value, the quote after slippage
C15_TopUpOnValue == AllWritten(LAMBDA row : RoyaltyTopUp(row, row.value))

\* C16: whenever getOrderId was called twice, the two answers are equal exactly
\* when the pool, the side and the token id of the two calls are: the same
\* arguments give the same id at every call, and two different identities
\* (another pool, the other side, another token id) give two different ids,
\* their packed bytes being different already.
PackedBytes(call) ==
  IF call.side = "buy"
  THEN pack(<<"string", "address", "string">>, <<"nftx", call.pool, call.side>>)
  ELSE pack(<<"string", "address", "string", "uint256">>,
            <<"nftx", call.pool, call.side, call.tokenId[1]>>)

C16_IdOfIdentity ==
  \A i \in 1..Len(idCalls) : \A j \in 1..Len(idCalls) :
    LET same == /\ idCalls[i].pool = idCalls[j].pool
                /\ idCalls[i].side = idCalls[j].side
                /\ idCalls[i].tokenId = idCalls[j].tokenId
    IN /\ (idCalls[i].id = idCalls[j].id) <=> same
       /\ (PackedBytes(idCalls[i]) = PackedBytes(idCalls[j])) <=> same

\* two calls for the sell orders of two token ids of one pool gave two ids
C16_Witness ==
  /\ Len(idCalls) = 2
  /\ idCalls[1].pool = idCalls[2].pool
  /\ idCalls[1].side = "sell" /\ idCalls[2].side = "sell"
  /\ idCalls[1].tokenId # idCalls[2].tokenId
  /\ idCalls[1].id # idCalls[2].id

\* the sell leg of task t ends the event, no catch having been entered
EndsClean(t) == pc[t] \in SellPcs /\ pc'[t] = "done" /\ caught'[t] = {}

\* C17: when an event of a call the caller awaited ends without a failure, every
\* sell order of its pool that the table then shows fillable is for a token the
\* pool was just found to hold, at a buy price the oracle just quoted: an order
\* for a token that left the pool is not left fillable.
C17_Step ==
  \A t \in Tasks :
    (awaited /\ EndsClean(t)) =>
      \A k \in 1..Len(orders') :
        ( /\ orders'[k].side = "sell"
          /\ orders'[k].maker = orderParams(t).pool
          /\ orders'[k].fillability_status = "fillable" ) =>
            /\ priceList[t][1].buy # None
            /\ \E i \in 1..Len(poolOwnedTokenIds[t]) :
                 orders'[k].id = getOrderId(orderParams(t).pool, "sell", poolOwnedTokenIds[t][i])

C17_NoStaleSellOrder == [][C17_Step]_vars

\* what the code ensures instead: an event never takes a sell order out of the
\* fillable state; the rows of tokens it does not find are not touched
C17_SellOrdersStayFillable ==
  [][\A k \in 1..Len(orders) :
       (orders[k].side = "sell" /\ orders[k].fillability_status = "fillable") =>
         /\ orders'[k].id = orders[k].id
         /\ orders'[k].fillability_status = "fillable"]_vars

\* the raw quotes the oracle gives at a depth, read off the curve of that name
RawQuoteAt(name, depth) ==
  LET cv == CHOOSE cv \in Curves : name = Some(cv.name)
  IN [ sell |-> IF depth \in cv.sell THEN Some(cv.sellBase + 10 * (depth - 1)) ELSE None,
       buy |-> IF depth \in cv.buy THEN Some(cv.buyBase + 10 * (depth - 1)) ELSE None ]

\* C18: an event in one of its legs has a ladder of exactly Depth quotes, the
\* d-th being the oracle's answer for depth d; while it samples, each answer
\* adds the quote of the next depth and nothing else does, so the calls are made
\* one after the other for depths 1, 2, ..., Depth and the buy leg starts at the
\* last answer; two events may be sampling at the same time.
C18_State ==
  \A t \in Tasks :
    /\ pc[t] \in BuyPcs \cup SellPcs =>
         /\ Len(priceList[t]) = Depth
         /\ \A d \in 1..Depth : priceList[t][d].raw = RawQuoteAt(curve[t], d)
    /\ pc[t] = "sample" => Len(priceList[t]) < Depth
    /\ pc[t] \in {"queued", "details"} => priceList[t] = <<>>

C18_Step ==
  \A t \in Tasks :
    /\ (pc[t] = "sample" /\ pc'[t] \notin {"sample", "done"}) =>
         /\ pc'[t] = "buy"
         /\ Len(priceList[t]) = Depth - 1
    /\ (pc[t] = "sample" /\ pc'[t] # "done" /\ priceList'[t] # priceList[t]) =>
         /\ Len(priceList'[t]) = Len(priceList[t]) + 1
         /\ SubSeq(priceList'[t], 1, Len(priceList[t])) = priceList[t]
         /\ priceList'[t][Len(priceList'[t])].raw = RawQuoteAt(curve'[t], Len(priceList[t]) + 1)
    /\ (pc[t] # "sample" /\ priceList'[t] # priceList[t]) =>
         (priceList'[t] = <<>> /\ pc'[t] \in {"sample", "done"})

C18_SamplingInOrder == [](C18_State) /\ [][C18_Step]_vars

\* one event is in its buy leg with all its quotes while another one of the
\* same batch is half way through its sampling
C18_Witness ==
  \E t \in Tasks : \E u \in Tasks :
    /\ t[1] = u[1]
    /\ pc[t] = "buyRead"
    /\ Len(priceList[t]) = Depth
    /\ priceList[t][3].raw.sell # None /\ priceList[t][2].raw.sell = None
    /\ pc[u] = "sample"
    /\ Len(priceList[u]) = 5

(***************************************************************************)
(* Progress: every await is answered or throws in the end, and a           *)
(* continuation that can run does run                                      *)
(***************************************************************************)
FairSpec == Spec /\ WF_vars(Next)

AllSettled(phases) ==
  /\ \A t \in Tasks : pc[t] = "done"
  /\ \A c \in DOMAIN phase : phase[c] \in phases

\* C19: when every call of a collaborator returns or fails in the end, every
\* event of every batch starts and ends, and every save() then goes through its
\* flush and its notification and returns.
C19_EverySaveReturns == <>AllSettled({"returned"})

\* what the code ensures: every event ends and every save() settles, by
\* returning or, when the insert or the queue call throws, by rejecting
C19_EverySaveSettles == <>AllSettled({"returned", "rejected"})

\* how far a handleOrder call is: its position, the quotes sampled, the items done
TaskRank(p, quotes, item) ==
  CASE p = "queued" -> 0 [] p = "details" -> 1 [] p = "sample" -> 2 + Len(quotes)
    [] p = "buy" -> 30 [] p = "buyRoyalties" -> 31 [] p = "buyRead" -> 32
    [] p = "buyTokenSet" -> 33 [] p = "buySources" -> 34 [] p = "buyUpdate" -> 35
    [] p = "buyNoBalance" -> 36 [] p = "sell" -> 40 [] p = "sellRoyalties" -> 41
    [] p = "sellGetNfts" -> 42
    [] p = "sellRead" -> 50 + 10 * item [] p = "sellTokenSet" -> 51 + 10 * item
    [] p = "sellSources" -> 52 + 10 * item [] p = "sellUpdate" -> 53 + 10 * item
    [] OTHER -> 1000

\* how far a save() call is
CallRank(ph, sent, rendered) == 100 * PhaseRank(ph) + Len(sent) + Len(rendered)

\* what the code ensures, step by step: no step takes an event or a call
\* back and every step takes one of them forward, so no run goes round in a
\* circle; with the weak fairness of FairSpec a run then ends, and it can end
\* only where C19_StopsOnlySettled allows
C19_EveryStepAdvances ==
  [][ /\ \A t \in Tasks :
           TaskRank(pc'[t], priceList'[t], tokenIndex'[t])
             >= TaskRank(pc[t], priceList[t], tokenIndex[t])
      /\ \A c \in DOMAIN phase :
           CallRank(phase'[c], published'[c], statement'[c])
             >= CallRank(phase[c], published[c], statement[c])
      /\ \/ \E t \in Tasks :
              TaskRank(pc'[t], priceList'[t], tokenIndex'[t])
                > TaskRank(pc[t], priceList[t], tokenIndex[t])
         \/ \E c \in DOMAIN phase :
              CallRank(phase'[c], published'[c], statement'[c])
                > CallRank(phase[c], published[c], statement[c]) ]_vars

\* a state where nothing more can happen is one where every call has settled
C19_StopsOnlySettled ==
  (ENABLED <<Next>>_vars) \/ AllSettled({"returned", "rejected"})

\* the fee entries a row has, or will have when the insert is rendered
FeeEntriesOfBuffered(row) == feeBreakdown[row.fee_breakdown]

OneOwnFeeEntry(entries, row) ==
  /\ Len(entries) = 1
  /\ entries[1].kind = "marketplace"
  /\ entries[1].bps = row.fee_bps
  /\ row.fee_bps = (IF row.side = "buy" THEN SellFeeBps ELSE BuyFeeBps)

\* C20: every row in the table, in an insert statement or in an insert buffer
\* has a fee breakdown of exactly one marketplace entry, with the row's own
\* fee_bps: the sell-direction fee for a buy order, the buy-direction fee for a
\* sell order.
C20_OneFeeEntryPerRow ==
  /\ \A k \in 1..Len(orders) : OneOwnFeeEntry(orders[k].fee_breakdown, orders[k])
  /\ \A c \in DOMAIN phase :
       /\ \A k \in 1..Len(statement[c]) :
            OneOwnFeeEntry(statement[c][k].fee_breakdown, statement[c][k])
       /\ \A k \in 1..Len(orderValues[c]) :
            OneOwnFeeEntry(FeeEntriesOfBuffered(orderValues[c][k]), orderValues[c][k])

\* what the code ensures: the entries of a row are the marketplace entries
\* of the legs that ran before it was rendered, the sell-direction fee first
\* when there is one, and the row's fee_bps is the fee of its own leg
FeeEntriesOfLegs(entries, row) ==
  /\ Len(entries) \in {1, 2}
  /\ \A i \in 1..Len(entries) : entries[i].kind = "marketplace"
  /\ row.fee_bps = (IF row.side = "buy" THEN SellFeeBps ELSE BuyFeeBps)
  /\ \E i \in 1..Len(entries) : entries[i].bps = row.fee_bps
  /\ Len(entries) = 2 => (entries[1].bps = SellFeeBps /\ entries[2].bps = BuyFeeBps)

C20_FeeEntriesAccumulate ==
  /\ \A k \in 1..Len(orders) : FeeEntriesOfLegs(orders[k].fee_breakdown, orders[k])
  /\ \A c \in DOMAIN phase :
       \A k \in 1..Len(orderValues[c]) :
         FeeEntriesOfLegs(FeeEntriesOfBuffered(orderValues[c][k]), orderValues[c][k])

\* the places of an insert buffer, and of a result list, that carry an identity
BufferedAt(c, id) == {k \in 1..Len(orderValues[c]) : orderValues[c][k].id = id}
NewOrderAt(c, id) ==
  {k \in 1..Len(results[c]) :
     results[c][k].id = id /\ results[c][k].triggerKind = "new-order"}

\* C21: within one save() call every order identity is buffered for insert at
\* most once and has at most one result tagged new-order, also when the batch
\* holds two events of the same pool whose orders are not in the table yet.
C21_BufferedOncePerBatch ==
  \A c \in DOMAIN phase :
    /\ \A k \in 1..Len(orderValues[c]) :
         Cardinality(BufferedAt(c, orderValues[c][k].id)) <= 1
    /\ \A k \in 1..Len(results[c]) :
         Cardinality(NewOrderAt(c, results[c][k].id)) <= 1

\* what the code ensures: an identity is buffered once for every result
\* tagged new-order it has, at most once per event of the batch, and the
\* table still ends with one row for it (C1_OneRowPerIdentity)
C21_BufferedOncePerEvent ==
  \A c \in DOMAIN phase :
    /\ \A k \in 1..Len(orderValues[c]) :
         /\ Cardinality(BufferedAt(c, orderValues[c][k].id))
              = Cardinality(NewOrderAt(c, orderValues[c][k].id))
         /\ Cardinality(BufferedAt(c, orderValues[c][k].id)) <= Len(orderInfos[c])
    /\ \A k \in 1..Len(results[c]) :
         results[c][k].triggerKind = "new-order" =>
           BufferedAt(c, results[c][k].id) # {}

====
